---- MODULE Spec2Model ----
(***************************************************************************)
(* Model of src/vision/hand_detector.py: main() opens the webcam, then     *)
(* loops read -> flip -> cvtColor -> hands.process -> draw_landmarks per   *)
(* hand -> imshow -> waitKey, and tears down with cap.release() and        *)
(* cv2.destroyAllWindows().  Each statement of main() is one action; pc is *)
(* the position of the single thread of control.  Calls into cv2 and       *)
(* mediapipe are the environment: their results are drawn from small sets, *)
(* and a call made inside the loop body may raise, which main() does not   *)
(* catch.                                                                  *)
(***************************************************************************)
EXTENDS Integers, Sequences, FiniteSets, TLC

\* ---- bounds of the model ----
FrameWidth == 2        \* pixels per frame (one row)
MaxCount == 3          \* call counters saturate here

\* ---- program constants ----
MaxNumHands == 2       \* max_num_hands=2
NumHandLandmarks == 21 \* index domain of mp_hands.HAND_CONNECTIONS
OrdQ == 113            \* ord('q')
ByteMask == 256        \* & 0xFF keeps the value modulo 256
NoKey == 0 - 1         \* cv2.waitKey returns -1 when no key was pressed

MsgCannotAccess == "Error: Cannot access webcam"
MsgStarted == "Webcam started. Press 'q' to quit."
MsgFailedGrab == "Failed to grab frame"

\* ---- frames ----
\* a pixel is <<b, g, r>>; a frame is one row of FrameWidth pixels
PixelVals == {<<0, 0, 1>>, <<1, 0, 0>>}
Frames == [1..FrameWidth -> PixelVals]
NoFrame == <<>>

\* cv2.flip(frame, 1): horizontal mirror
flip(f) == [i \in 1..Len(f) |-> f[Len(f) + 1 - i]]

\* cv2.cvtColor(frame, cv2.COLOR_BGR2RGB): reverse the channel order
cvtColor(f) == [i \in 1..Len(f) |-> <<f[i][3], f[i][2], f[i][1]>>]

\* ---- detector output ----
Landmark == [x |-> 0, y |-> 1, z |-> 0]
LandmarkCounts == {NumHandLandmarks - 1, NumHandLandmarks}
HandObservations == {[landmark |-> [k \in 1..n |-> Landmark]] : n \in LandmarkCounts}
HandLists == UNION {[1..n -> HandObservations] : n \in 0..MaxNumHands}
NoResults == [is_none |-> TRUE, multi_hand_landmarks |-> <<>>]
DetectorResults == {NoResults} \cup {[is_none |-> FALSE, multi_hand_landmarks |-> s] : s \in HandLists}

\* `if results.multi_hand_landmarks:` -- None and the empty list are falsy
Truthy(r) == ~r.is_none /\ Len(r.multi_hand_landmarks) > 0

\* ---- keys ----
Keys == {NoKey, OrdQ, 97, OrdQ + ByteMask}
KeyIsQuit(k) == (k % ByteMask) = OrdQ

\* ---- positions of main() ----
LoopPcs == {"read", "flip", "cvt", "process", "draw", "show", "poll"}
BodyPcs == {"flip", "cvt", "process", "draw", "show", "poll"}
TeardownPcs == {"release", "destroy", "done"}
CallNames == {"read", "flip", "cvt", "process", "draw", "show", "poll"}

Inc(c) == IF c < MaxCount THEN c + 1 ELSE c

VARIABLES
  pc,         \* position in main()
  cap,        \* "none" | "opened" | "failed" | "released"
  success,    \* first component of cap.read()
  frame,      \* the frame being processed (mutated in place by drawing)
  rgb_frame,  \* detector colour-space copy
  results,    \* hands.process() output
  idx,        \* position of the for loop over multi_hand_landmarks
  landmarks,  \* coordinate list extracted from the current hand
  key,        \* last value returned by cv2.waitKey(1)
  stdout,     \* printed lines
  window,     \* TRUE while the display window exists
  captured,   \* history: frame as returned by the last cap.read()
  drawn,      \* history: observations passed to draw_landmarks this cycle
  shown,      \* history: frame passed to imshow this cycle
  calls,      \* history: calls made per loop step (saturating)
  fails,      \* history: failed reads (saturating)
  released,   \* history: cap.release() calls (saturating)
  destroyed   \* history: cv2.destroyAllWindows() calls (saturating)

vars == <<pc, cap, success, frame, rgb_frame, results, idx, landmarks, key,
          stdout, window, captured, drawn, shown, calls, fails, released, destroyed>>

locals == <<success, frame, rgb_frame, results, idx, landmarks, key>>
history == <<captured, drawn, shown, calls, fails, released, destroyed>>

Called(c) == [calls EXCEPT ![c] = Inc(@)]

Init ==
  /\ pc = "start"
  /\ cap = "none"
  /\ success = FALSE
  /\ frame = NoFrame
  /\ rgb_frame = NoFrame
  /\ results = NoResults
  /\ idx = 0
  /\ landmarks = <<>>
  /\ key = NoKey
  /\ stdout = <<>>
  /\ window = FALSE
  /\ captured = NoFrame
  /\ drawn = <<>>
  /\ shown = NoFrame
  /\ calls = [c \in CallNames |-> 0]
  /\ fails = 0
  /\ released = 0
  /\ destroyed = 0

\* cap = cv2.VideoCapture(0)
VideoCapture ==
  /\ pc = "start"
  /\ cap' \in {"opened", "failed"}
  /\ pc' = "check"
  /\ UNCHANGED <<locals, stdout, window, history>>

\* if not cap.isOpened(): print; return   /   print started
CheckOpened_NoReturn ==
  /\ pc = "check"
  /\ stdout' = Append(stdout, IF cap = "opened" THEN MsgStarted ELSE MsgCannotAccess)
  /\ pc' = "read"
  /\ UNCHANGED <<cap, locals, window, history>>

CheckOpened ==
  /\ pc = "check"
  /\ IF cap # "opened"
       THEN /\ stdout' = Append(stdout, MsgCannotAccess)
            /\ pc' = "done"
       ELSE /\ stdout' = Append(stdout, MsgStarted)
            /\ pc' = "read"
  /\ UNCHANGED <<cap, locals, window, history>>

\* success, frame = cap.read(); if not success: print; break
ReadFrame_Retry ==
  /\ pc = "read"
  /\ calls' = Called("read")
  /\ \/ /\ success' = FALSE
        /\ frame' = NoFrame
        /\ captured' = NoFrame
        /\ fails' = Inc(fails)
        /\ stdout' = IF Len(stdout) < MaxCount + 2 THEN Append(stdout, MsgFailedGrab) ELSE stdout
        /\ pc' = "read"
     \/ /\ success' = TRUE
        /\ \E f \in Frames : frame' = f /\ captured' = f
        /\ fails' = fails
        /\ stdout' = stdout
        /\ pc' = "flip"
  /\ drawn' = <<>>
  /\ shown' = NoFrame
  /\ UNCHANGED <<cap, rgb_frame, results, idx, landmarks, key, window, released, destroyed>>

ReadFrame ==
  /\ pc = "read"
  /\ calls' = Called("read")
  /\ \/ /\ success' = FALSE
        /\ frame' = NoFrame
        /\ captured' = NoFrame
        /\ fails' = Inc(fails)
        /\ stdout' = Append(stdout, MsgFailedGrab)
        /\ pc' = "release"
     \/ /\ success' = TRUE
        /\ \E f \in Frames : frame' = f /\ captured' = f
        /\ fails' = fails
        /\ stdout' = stdout
        /\ pc' = "flip"
  /\ drawn' = <<>>
  /\ shown' = NoFrame
  /\ UNCHANGED <<cap, rgb_frame, results, idx, landmarks, key, window, released, destroyed>>

\* frame = cv2.flip(frame, 1)
FlipFrame ==
  /\ pc = "flip"
  /\ frame' = flip(frame)
  /\ calls' = Called("flip")
  /\ pc' = "cvt"
  /\ UNCHANGED <<cap, success, rgb_frame, results, idx, landmarks, key, stdout, window,
                 captured, drawn, shown, fails, released, destroyed>>

\* rgb_frame = cv2.cvtColor(frame, cv2.COLOR_BGR2RGB)
ConvertColor ==
  /\ pc = "cvt"
  /\ rgb_frame' = cvtColor(frame)
  /\ calls' = Called("cvt")
  /\ pc' = "process"
  /\ UNCHANGED <<cap, success, frame, results, idx, landmarks, key, stdout, window,
                 captured, drawn, shown, fails, released, destroyed>>

\* results = hands.process(rgb_frame); if results.multi_hand_landmarks: for ...
Process_SkipDraw ==
  /\ pc = "process"
  /\ \E r \in DetectorResults : results' = r
  /\ calls' = Called("process")
  /\ idx' = 1
  /\ pc' = "show"
  /\ UNCHANGED <<cap, success, frame, rgb_frame, landmarks, key, stdout, window,
                 captured, drawn, shown, fails, released, destroyed>>

Process ==
  /\ pc = "process"
  /\ \E r \in DetectorResults : results' = r
  /\ calls' = Called("process")
  /\ idx' = 1
  /\ pc' = IF Truthy(results') THEN "draw" ELSE "show"
  /\ UNCHANGED <<cap, success, frame, rgb_frame, landmarks, key, stdout, window,
                 captured, drawn, shown, fails, released, destroyed>>

\* one iteration of `for hand_landmarks in results.multi_hand_landmarks`:
\* draw_landmarks mutates frame in place, then the coordinates are copied out
DrawHand ==
  /\ pc = "draw"
  /\ LET hand_landmarks == results.multi_hand_landmarks[idx]
     IN /\ \E f \in Frames : frame' = f
        /\ drawn' = Append(drawn, hand_landmarks)
        /\ landmarks' = [k \in 1..Len(hand_landmarks.landmark) |->
                           <<hand_landmarks.landmark[k].x,
                             hand_landmarks.landmark[k].y,
                             hand_landmarks.landmark[k].z>>]
  /\ calls' = Called("draw")
  /\ idx' = idx + 1
  /\ pc' = IF idx < Len(results.multi_hand_landmarks) THEN "draw" ELSE "show"
  /\ UNCHANGED <<cap, success, rgb_frame, results, key, stdout, window,
                 captured, shown, fails, released, destroyed>>

\* cv2.imshow("MediaPipe Hand Detection", frame)
ImShow_Rgb ==
  /\ pc = "show"
  /\ shown' = rgb_frame
  /\ window' = TRUE
  /\ calls' = Called("show")
  /\ pc' = "poll"
  /\ UNCHANGED <<cap, locals, stdout, captured, drawn, fails, released, destroyed>>

ImShow ==
  /\ pc = "show"
  /\ shown' = frame
  /\ window' = TRUE
  /\ calls' = Called("show")
  /\ pc' = "poll"
  /\ UNCHANGED <<cap, locals, stdout, captured, drawn, fails, released, destroyed>>

\* if cv2.waitKey(1) & 0xFF == ord('q'): break
PollKey_NoBreak ==
  /\ pc = "poll"
  /\ \E k \in Keys : key' = k
  /\ calls' = Called("poll")
  /\ pc' = "read"
  /\ UNCHANGED <<cap, success, frame, rgb_frame, results, idx, landmarks, stdout, window,
                 captured, drawn, shown, fails, released, destroyed>>

PollKey ==
  /\ pc = "poll"
  /\ \E k \in Keys : key' = k
  /\ calls' = Called("poll")
  /\ pc' = IF KeyIsQuit(key') THEN "release" ELSE "read"
  /\ UNCHANGED <<cap, success, frame, rgb_frame, results, idx, landmarks, stdout, window,
                 captured, drawn, shown, fails, released, destroyed>>

\* a cv2 / mediapipe call of the loop body raises; main() has no try block,
\* so the exception leaves main() at that statement
Raise ==
  /\ pc \in BodyPcs
  /\ pc' = "crashed"
  /\ UNCHANGED <<cap, locals, stdout, window, history>>

\* cap.release()
ReleaseCapture_Skip ==
  /\ pc = "release"
  /\ pc' = "destroy"
  /\ UNCHANGED <<cap, locals, stdout, window, history>>

ReleaseCapture ==
  /\ pc = "release"
  /\ cap' = "released"
  /\ released' = Inc(released)
  /\ pc' = "destroy"
  /\ UNCHANGED <<locals, stdout, window, captured, drawn, shown, calls, fails, destroyed>>

\* cv2.destroyAllWindows()
DestroyWindows ==
  /\ pc = "destroy"
  /\ window' = FALSE
  /\ destroyed' = Inc(destroyed)
  /\ pc' = "done"
  /\ UNCHANGED <<cap, locals, stdout, captured, drawn, shown, calls, fails, released>>

Next ==
  \/ VideoCapture
  \/ CheckOpened
  \/ ReadFrame
  \/ FlipFrame
  \/ ConvertColor
  \/ Process
  \/ DrawHand
  \/ ImShow
  \/ PollKey
  \/ Raise
  \/ ReleaseCapture
  \/ DestroyWindows

Spec == Init /\ [][Next]_vars

\* the interpreter always executes the next statement of main()
FairSpec == Spec /\ WF_vars(Next)

\* ---- derived notions ----
Terminated == pc \in {"done", "crashed"}
\* `python hand_detector.py`: 0 when main() returns, 1 on an uncaught exception
ExitStatus == IF pc = "crashed" THEN 1 ELSE 0
QuitObserved == KeyIsQuit(key)
ReadFailed == fails > 0
OpenFailed == cap = "failed"
Count(s, m) == Cardinality({i \in 1..Len(s) : s[i] = m})



\* ---- order of the statements of one cycle ----
Order ==
  {<<"read", "flip">>, <<"flip", "cvt">>, <<"cvt", "process">>, <<"process", "draw">>,
   <<"process", "show">>, <<"draw", "show">>, <<"show", "poll">>, <<"poll", "read">>,
   <<"poll", "release">>, <<"read", "release">>}
RaiseEdges == {<<p, "crashed">> : p \in BodyPcs}

(***************************************************************************)
(* C1 (amended).  A run that ends because the quit key was observed or     *)
(* because a read failed reaches the end of main() with cap.release()      *)
(* called exactly once and the windows destroyed; a run whose device could *)
(* not be opened also reaches the end of main(), but without any call of   *)
(* cap.release().  cap.release() is never called twice.                    *)
(***************************************************************************)
Thm_C1 ==
  /\ [](released <= 1)
  /\ [](pc = "done" =>
          /\ (QuitObserved \/ ReadFailed) => (released = 1 /\ cap = "released" /\ ~window)
          /\ OpenFailed => released = 0)
  /\ ((QuitObserved \/ ReadFailed \/ OpenFailed) ~> (pc = "done"))

Witness_C1 ==
  pc = "done" /\ ReadFailed /\ released = 1 /\ calls["read"] = 3 /\ calls["poll"] = 2

\* C1 as stated: every way of reaching the end of main(), the failed open
\* included, has released the capture handle exactly once.
CE_C1 == pc = "done" => released = 1

(***************************************************************************)
(* C2.  The exit status is 0 exactly when the run ended by the quit key;   *)
(* a failed open or a failed read ends the process with a non-zero status. *)
(***************************************************************************)
CE_C2 == Terminated => ((ExitStatus = 0) <=> QuitObserved)

(***************************************************************************)
(* C3.  No terminated run holds the device or the window: once acquired,   *)
(* the capture is released on every exit path, a raising step included.    *)
(***************************************************************************)
CE_C3 == Terminated => (cap # "opened" /\ ~window)

(***************************************************************************)
(* C4.  A failed read is reported exactly once and leads straight to       *)
(* teardown: there is no second read, and no flip, colour conversion,      *)
(* detector call, draw, display or key poll from the failure on.           *)
(***************************************************************************)
Thm_C4 ==
  /\ [](ReadFailed => /\ fails = 1
                      /\ Count(stdout, MsgFailedGrab) = 1
                      /\ pc \in TeardownPcs
                      /\ shown = NoFrame /\ drawn = <<>>)
  /\ [](~ReadFailed => Count(stdout, MsgFailedGrab) = 0)
  /\ [][ReadFailed' => \A c \in CallNames \ {"read"} : calls'[c] = calls[c]]_vars
  /\ [][ReadFailed => calls' = calls]_vars

Witness_C4 ==
  pc = "done" /\ ReadFailed /\ calls["read"] = 2 /\ calls["flip"] = 1 /\ calls["poll"] = 1

(***************************************************************************)
(* C5.  An observation whose landmark count differs from the count the     *)
(* connection table expects is never passed to draw_landmarks.             *)
(***************************************************************************)
CE_C5 == \A i \in 1..Len(drawn) : Len(drawn[i].landmark) = NumHandLandmarks

(***************************************************************************)
(* C6.  If the device cannot be opened, the loop is never entered: no      *)
(* read, flip, conversion, detector call, draw, display or key poll is     *)
(* made, and the run ends having printed exactly the error message.        *)
(***************************************************************************)
Thm_C6 ==
  OpenFailed =>
    /\ pc \notin LoopPcs
    /\ \A c \in CallNames : calls[c] = 0
    /\ shown = NoFrame /\ drawn = <<>> /\ ~window
    /\ pc \in {"done", "release", "destroy", "crashed"} => stdout = <<MsgCannotAccess>>

Witness_C6 == OpenFailed /\ pc = "done" /\ stdout = <<MsgCannotAccess>>

(***************************************************************************)
(* C7.  When the detector returns no hand (None or an empty list), the     *)
(* step after the detector call is the display, with no draw call made,    *)
(* and the frame displayed is the mirror image of the frame read.          *)
(***************************************************************************)
Thm_C7 ==
  /\ [][(pc = "process" /\ pc' # "crashed" /\ ~Truthy(results'))
          => (pc' = "show" /\ frame' = flip(captured') /\ drawn' = <<>>
              /\ calls'["draw"] = calls["draw"])]_vars
  /\ [](pc = "show" /\ ~Truthy(results) => frame = flip(captured) /\ drawn = <<>>)
  /\ [](pc = "poll" /\ ~Truthy(results) => shown = flip(captured) /\ drawn = <<>>)

Witness_C7 ==
  /\ pc = "poll" /\ ~results.is_none /\ results.multi_hand_landmarks = <<>>
  /\ shown = flip(captured) /\ shown # captured

====
